---- MODULE Spec2Model ----
(***************************************************************************)
(* Model of the RAG service: the pgvector store client                     *)
(* (app/db/postgres.py), the embedding index (app/embeddings/base.py),     *)
(* the retriever and pipeline (app/rag) and the HTTP handlers (app/routes).*)
(*                                                                         *)
(* The relational store and the psycopg2 pool are the environment.  They   *)
(* are modelled by what the library calls in the source do:                *)
(*   - pool.getconn() hands out an idle connection, or opens a new one     *)
(*     when fewer than max_conn are in use, or raises (it never waits);    *)
(*   - pool.putconn() keeps a healthy connection when fewer than min_conn  *)
(*     are idle and discards it otherwise;                                 *)
(*   - execute_values(cur, sql, data) accepts a statement with exactly one *)
(*     %s placeholder and raises ValueError for any other number;          *)
(*   - a JSONB column is read back as a Python object, not as text.        *)
(*                                                                         *)
(* Five specifications share the state:                                    *)
(*   SpecAdapter  the store client, called one operation at a time;        *)
(*   Spec         POST /ingest/texts handlers on the event loop;           *)
(*   SpecQuery    POST /query handlers on the event loop;                  *)
(*   SpecRoutes   the process from its start: init_pipeline, the guard of  *)
(*                every handler, request validation, GET /health;          *)
(*   SpecLoaders  POST /ingest/pdf and POST /ingest/web handlers.          *)
(* A handler holds the event loop from one suspension point to the next;   *)
(* the store client and the embedding call are plain blocking calls, so    *)
(* an ingestion handler holds it from start to answer.                     *)
(***************************************************************************)
EXTENDS Integers, Sequences, FiniteSets, TLC

VARIABLES
    table,      \* rows of the collection "documents"
    pool,       \* the connection pool: idle and checked-out connections
    dbUp,       \* whether the database server can be reached
    lastOp,     \* the last store-client call: what it acquired, released, gave
    tasks,      \* the request handlers in flight, one record per task slot
    running,    \* the task the event loop is running now, 0 when it is free
    lastResp,   \* the response sent last, with what is remembered of its call
    pipeline    \* the global `pipeline` of main and of each route module

vars == <<table, pool, dbUp, lastOp, tasks, running, lastResp, pipeline>>

(***************************** bounds **************************************)
MaxIds == 2         \* longest id list / row list given to a store-client call
MaxTail == 2        \* documents of a request after its padding document
NumTasks == 2       \* request handlers in flight at once
MaxFiles == 2       \* files of one upload to POST /ingest/pdf
MaxUrls == 3        \* URLs of one request to POST /ingest/web

(************************ program constants ********************************)
min_conn == 1
max_conn == 10
batch_size == 50
retriever_k == 4
default_threshold == 0
NumColumns == 4
splitter_chunk_size == 1000     \* RecursiveCharacterTextSplitter(chunk_size=1000
chunk_overlap == 200            \*                                chunk_overlap=200)
default_chunk_size == 1000      \* DocumentIngestRequest.chunk_size, its default
documents_chunk_size == 1000    \* ingest_documents(documents, chunk_size=1000)
min_chunk_size == 100           \*   ge=100
max_chunk_size == 4000          \*   le=4000

(***************************** values **************************************)
Texts == {"a", "b", "c"}
Vecs == 0 .. 7                  \* embedding directions, multiples of 45 degrees
None == "None"

Range(s) == {s[i] : i \in 1 .. Len(s)}
SeqsUpTo(S, n) == UNION {[1 .. k -> S] : k \in 0 .. n}
Min(x, y) == IF x < y THEN x ELSE y

\* sha256(item.text.encode()).hexdigest(): one digest per text, no collisions
\* among the texts considered
sha256hex(t) == <<"sha256", t>>

Ids == {sha256hex(t) : t \in Texts}

\* 1 - (embedding <=> query): the cosine of the angle between two directions,
\* in thousandths
Cos1000(d) == CASE d = 0 -> 1000 [] d = 1 -> 707 [] d = 2 -> 0
                [] d = 3 -> 0 - 707 [] OTHER -> 0 - 1000
AngleBetween(u, v) == LET d == IF u > v THEN u - v ELSE v - u
                      IN  IF d > 4 THEN 8 - d ELSE d
similarity(u, v) == Cos1000(AngleBetween(u, v))

\* the rows the table may hold before this process writes anything: the table
\* is created with IF NOT EXISTS and survives restarts
StoredVec(t) == CASE t = "a" -> 0 [] t = "b" -> 2 [] OTHER -> 4
CreatedAt(t) == CASE t = "a" -> 1 [] t = "b" -> 2 [] OTHER -> 3
StoredMeta(t) == IF t = "c" THEN "obj" ELSE "empty"
Row(t) == [id |-> sha256hex(t), text |-> t, embedding |-> StoredVec(t),
           metadata |-> StoredMeta(t), created_at |-> CreatedAt(t)]
InitialTables == {{Row(t) : t \in S} : S \in SUBSET Texts}

(************************ the connection pool ******************************)
\* PostgresVdbClient._get_connection: self.pool.getconn()
_get_connection(p, up) ==
    IF p.idle > 0
    THEN [ok |-> TRUE, exc |-> "none",
          pool |-> [idle |-> p.idle - 1, used |-> p.used + 1]]
    ELSE IF p.used = max_conn
    THEN [ok |-> FALSE, exc |-> "PoolError", pool |-> p]
    ELSE IF up
    THEN [ok |-> TRUE, exc |-> "none", pool |-> [p EXCEPT !.used = @ + 1]]
    ELSE [ok |-> FALSE, exc |-> "OperationalError", pool |-> p]

\* PostgresVdbClient._return_connection: self.pool.putconn(conn); a connection
\* whose server is gone is closed instead of kept
_return_connection(p, lost) ==
    [idle |-> IF p.idle < min_conn /\ ~lost THEN p.idle + 1 ELSE p.idle,
     used |-> p.used - 1]

\* cursor.execute on a checked-out connection: "lost" when the server is gone,
\* "error" when the statement fails on a live connection
Execute(up, fault) == IF ~up THEN "lost" ELSE IF fault THEN "error" ELSE "ok"

\* what one store-client call leaves behind
OpResult(name, p, tbl, raised, value, failed, acquired, released, peak, caught) ==
    [op |-> name, pool |-> p, table |-> tbl, raised |-> raised, value |-> value,
     failed |-> failed, acquired |-> acquired, released |-> released,
     peak |-> peak, caught |-> caught]

\* the except block of every operation: it has caught exc, which left
\* _get_connection, and calls self._return_connection(conn) with conn never
\* assigned
ExceptWithoutConnection(name, p, tbl, exc) ==
    OpResult(name, p, tbl, "UnboundLocalError", None, TRUE, 0, 0, p.used, exc)

(************************ the store client *********************************)
\* PostgresVdbClient.create_table
create_table(tbl, p, up, fault) ==
    LET g == _get_connection(p, up) IN
    IF ~g.ok THEN ExceptWithoutConnection("create_table", p, tbl, g.exc)
    ELSE LET x == Execute(up, fault) IN
         IF x = "ok"
         THEN OpResult("create_table", _return_connection(g.pool, FALSE), tbl,
                       "none", None, FALSE, 1, 1, g.pool.used, "none")
         ELSE OpResult("create_table", _return_connection(g.pool, x = "lost"),
                       tbl, "DatabaseError", None, TRUE, 1, 1, g.pool.used,
                       "DatabaseError")

\* PostgresVdbClient.batch_exists_check
batch_exists_check(tbl, p, up, fault, ids) ==
    IF ids = <<>>
    THEN OpResult("batch_exists_check", p, tbl, "none", <<>>, FALSE, 0, 0,
                  p.used, "none")
    ELSE
    LET g == _get_connection(p, up) IN
    IF ~g.ok THEN ExceptWithoutConnection("batch_exists_check", p, tbl, g.exc)
    ELSE LET x == Execute(up, fault)
             existing_ids == {r.id : r \in tbl}
         IN
         IF x = "ok"
         THEN OpResult("batch_exists_check", _return_connection(g.pool, FALSE),
                       tbl, "none", [i \in Range(ids) |-> i \in existing_ids],
                       FALSE, 1, 1, g.pool.used, "none")
         ELSE OpResult("batch_exists_check",
                       _return_connection(g.pool, x = "lost"), tbl, "none",
                       [i \in Range(ids) |-> FALSE], TRUE, 1, 1, g.pool.used,
                       "DatabaseError")

\* INSERT ... ON CONFLICT (id) DO NOTHING, row by row: a row whose id is in the
\* table (stored before, or written by an earlier row of the statement) is
\* skipped
RECURSIVE InsertOrIgnore(_, _, _)
InsertOrIgnore(tbl, data, now) ==
    IF data = <<>> THEN tbl
    ELSE LET d == Head(data) IN
         IF \E r \in tbl : r.id = d.id
         THEN InsertOrIgnore(tbl, Tail(data), now)
         ELSE InsertOrIgnore(
                  tbl \cup {[id |-> d.id, text |-> d.text,
                             embedding |-> d.embedding, metadata |-> d.metadata,
                             created_at |-> now]},
                  Tail(data), now)

Now(tbl) == IF tbl = {} THEN 1
            ELSE 1 + (CHOOSE n \in {r.created_at : r \in tbl} :
                          \A r \in tbl : r.created_at <= n)

\* an insert that takes any statement and overwrites the rows it finds
execute_values_overwriting(placeholders, tbl, data) ==
    LET ids == {data[i].id : i \in 1 .. Len(data)}
        new == InsertOrIgnore({r \in tbl : r.id \notin ids}, data, Now(tbl))
    IN  [raised |-> "none", table |-> new, rowcount |-> Len(data)]

\* psycopg2.extras.execute_values(cursor, sql, data): the statement must hold
\* exactly one %s, which the rows replace; here sql holds one per column
execute_values(placeholders, tbl, data) ==
    IF placeholders # 1
    THEN [raised |-> "ValueError", table |-> tbl, rowcount |-> 0]
    ELSE LET new == InsertOrIgnore(tbl, data, Now(tbl))
         IN  [raised |-> "none", table |-> new,
              rowcount |-> Cardinality(new) - Cardinality(tbl)]

\* PostgresVdbClient.batch_insert
batch_insert(tbl, p, up, fault, data) ==
    IF data = <<>>
    THEN OpResult("batch_insert", p, tbl, "none", 0, FALSE, 0, 0, p.used,
                  "none")
    ELSE
    LET g == _get_connection(p, up) IN
    IF ~g.ok THEN ExceptWithoutConnection("batch_insert", p, tbl, g.exc)
    ELSE LET ev == execute_values(NumColumns, tbl, data)
             x  == Execute(up, fault)
         IN
         IF ev.raised # "none"
         THEN OpResult("batch_insert", _return_connection(g.pool, FALSE), tbl,
                       ev.raised, None, TRUE, 1, 1, g.pool.used, ev.raised)
         ELSE IF x = "ok"
         THEN OpResult("batch_insert", _return_connection(g.pool, FALSE),
                       ev.table, "none", ev.rowcount, FALSE, 1, 1, g.pool.used,
                       "none")
         ELSE OpResult("batch_insert", _return_connection(g.pool, x = "lost"),
                       tbl, "DatabaseError", None, TRUE, 1, 1, g.pool.used,
                       "DatabaseError")

\* the answers the SELECT of search may give: the rows above the threshold,
\* closest first, cut at limit; rows at equal distance come in any order
SearchAnswers(tbl, q, limit, threshold) ==
    LET pass == {r \in tbl : similarity(r.embedding, q) > threshold}
        n == Min(limit, Cardinality(pass))
    IN  {s \in [1 .. n -> pass] :
            /\ \A i, j \in 1 .. n : i # j => s[i] # s[j]
            /\ \A i, j \in 1 .. n :
                 i < j => similarity(s[i].embedding, q) >= similarity(s[j].embedding, q)
            /\ \A r \in pass \ Range(s) : \A i \in 1 .. n :
                 similarity(s[i].embedding, q) >= similarity(r.embedding, q)}

\* json.loads(row[2]) if row[2] else {}: the driver has already decoded the
\* JSONB value, so a non-empty object makes json.loads raise TypeError
MetadataLoads(m) == IF m = "empty" THEN [raised |-> "none", value |-> "empty"]
                    ELSE [raised |-> "TypeError", value |-> None]

\* PostgresVdbClient.search; rows is what fetchall() gave
search(tbl, p, up, fault, q, rows) ==
    LET g == _get_connection(p, up) IN
    IF ~g.ok THEN ExceptWithoutConnection("search", p, tbl, g.exc)
    ELSE LET x == Execute(up, fault) IN
         IF x # "ok"
         THEN OpResult("search", _return_connection(g.pool, x = "lost"), tbl,
                       "none", <<>>, TRUE, 1, 1, g.pool.used, "DatabaseError")
         ELSE IF \E i \in 1 .. Len(rows) :
                     MetadataLoads(rows[i].metadata).raised # "none"
         THEN OpResult("search", _return_connection(g.pool, FALSE), tbl,
                       "none", <<>>, TRUE, 1, 1, g.pool.used, "TypeError")
         ELSE OpResult("search", _return_connection(g.pool, FALSE), tbl, "none",
                       [i \in 1 .. Len(rows) |->
                           [id |-> rows[i].id, text |-> rows[i].text,
                            metadata |-> MetadataLoads(rows[i].metadata).value,
                            similarity |-> similarity(rows[i].embedding, q)]],
                       FALSE, 1, 1, g.pool.used, "none")

\* the answers the SELECT of get_all may give: newest first, cut at limit
GetAllAnswers(tbl, limit) ==
    LET n == Min(limit, Cardinality(tbl))
    IN  {s \in [1 .. n -> tbl] :
            /\ \A i, j \in 1 .. n : i # j => s[i] # s[j]
            /\ \A i, j \in 1 .. n : i < j => s[i].created_at >= s[j].created_at
            /\ \A r \in tbl \ Range(s) : \A i \in 1 .. n :
                 s[i].created_at >= r.created_at}

\* PostgresVdbClient.get_all; rows is what fetchall() gave
get_all(tbl, p, up, fault, rows) ==
    LET g == _get_connection(p, up) IN
    IF ~g.ok THEN ExceptWithoutConnection("get_all", p, tbl, g.exc)
    ELSE LET x == Execute(up, fault) IN
         IF x # "ok"
         THEN OpResult("get_all", _return_connection(g.pool, x = "lost"), tbl,
                       "none", <<>>, TRUE, 1, 1, g.pool.used, "DatabaseError")
         ELSE IF \E i \in 1 .. Len(rows) :
                     MetadataLoads(rows[i].metadata).raised # "none"
         THEN OpResult("get_all", _return_connection(g.pool, FALSE), tbl,
                       "none", <<>>, TRUE, 1, 1, g.pool.used, "TypeError")
         ELSE OpResult("get_all", _return_connection(g.pool, FALSE), tbl, "none",
                       [i \in 1 .. Len(rows) |->
                           [id |-> rows[i].id, text |-> rows[i].text,
                            metadata |-> MetadataLoads(rows[i].metadata).value,
                            created_at |-> rows[i].created_at]],
                       FALSE, 1, 1, g.pool.used, "none")

\* PostgresVdbClient.delete_by_id
delete_by_id(tbl, p, up, fault, id) ==
    LET g == _get_connection(p, up) IN
    IF ~g.ok THEN ExceptWithoutConnection("delete_by_id", p, tbl, g.exc)
    ELSE LET x == Execute(up, fault) IN
         IF x = "ok"
         THEN OpResult("delete_by_id", _return_connection(g.pool, FALSE),
                       {r \in tbl : r.id # id}, "none",
                       \E r \in tbl : r.id = id, FALSE, 1, 1, g.pool.used,
                       "none")
         ELSE OpResult("delete_by_id", _return_connection(g.pool, x = "lost"),
                       tbl, "none", FALSE, TRUE, 1, 1, g.pool.used,
                       "DatabaseError")

(**************************** the state ************************************)
Tasks == 1 .. NumTasks

IdleTask == [kind |-> "none", pc |-> "idle", items |-> <<>>, off |-> 0,
             todo |-> <<>>, embeddings |-> <<>>, log |-> <<>>, top_k |-> 0,
             docs |-> <<>>, error |-> "none", urls |-> 0, fetched |-> <<>>,
             rejected |-> 0, called |-> FALSE, chunk_size |-> 0]

\* main.py and the route modules before init_pipeline: every `pipeline` is None
NotInjected == [main |-> None, ingest |-> None, query |-> None, health |-> None,
                startup |-> "pending"]

\* init_pipeline, lines 34 to 43: the one RagPipeline object, bound in main and
\* in the three route modules
Injected == [main |-> "RagPipeline", ingest |-> "RagPipeline",
             query |-> "RagPipeline", health |-> "RagPipeline",
             startup |-> "done"]

\* the module whose `pipeline` the handler of an endpoint reads
Endpoints == {"health", "ingest", "pdf", "web", "query"}
RouteModule(e) == CASE e = "health" -> "health"
                    [] e = "query"  -> "query"
                    [] OTHER        -> "ingest"

\* a guard that never finds the pipeline missing
PipelineIsNone_never(e) == FALSE

\* the first statement of every handler: if pipeline is None
PipelineIsNone(e) == pipeline[RouteModule(e)] = None

NoResp == [kind |-> "none"]

\* what is remembered of a store-client call
Summary(r, args) ==
    [op |-> r.op, args |-> args, raised |-> r.raised, value |-> r.value,
     failed |-> r.failed, acquired |-> r.acquired, released |-> r.released,
     peak |-> r.peak, caught |-> r.caught]

\* the state once PostgresVdbClient, the embedding model and the pipeline are
\* built: the pool holds its min_conn connections and create_table has run
Init ==
    /\ table \in InitialTables
    /\ pool = [idle |-> min_conn, used |-> 0]
    /\ dbUp = TRUE
    /\ lastOp = Summary(create_table(table, pool, TRUE, FALSE), <<>>)
    /\ tasks = [t \in Tasks |-> IdleTask]
    /\ running = 0
    /\ lastResp = NoResp
    /\ pipeline = Injected

\* the arguments the store-client calls are tried with
IdLists == SeqsUpTo(Ids, MaxIds)
InsertRows == {[id |-> sha256hex(t), text |-> t, embedding |-> 1,
                metadata |-> "obj"] : t \in Texts}
RowLists == SeqsUpTo(InsertRows, MaxIds)
Limits == {1, 2, retriever_k}
Thresholds == {default_threshold, 500}

CallCreateTable ==
    \E fault \in BOOLEAN :
        LET r == create_table(table, pool, dbUp, fault) IN
        /\ lastOp' = Summary(r, <<>>)
        /\ pool' = r.pool
        /\ table' = r.table
        /\ UNCHANGED <<dbUp, tasks, running, lastResp, pipeline>>

CallBatchExistsCheck ==
    \E ids \in IdLists, fault \in BOOLEAN :
        LET r == batch_exists_check(table, pool, dbUp, fault, ids) IN
        /\ lastOp' = Summary(r, ids)
        /\ pool' = r.pool
        /\ table' = r.table
        /\ UNCHANGED <<dbUp, tasks, running, lastResp, pipeline>>

CallBatchInsert ==
    \E data \in RowLists, fault \in BOOLEAN :
        LET r == batch_insert(table, pool, dbUp, fault, data) IN
        /\ lastOp' = Summary(r, data)
        /\ pool' = r.pool
        /\ table' = r.table
        /\ UNCHANGED <<dbUp, tasks, running, lastResp, pipeline>>

CallSearch ==
    \E q \in Vecs, limit \in Limits, threshold \in Thresholds, fault \in BOOLEAN :
        \E rows \in SearchAnswers(table, q, limit, threshold) :
            LET r == search(table, pool, dbUp, fault, q, rows) IN
            /\ lastOp' = Summary(r, <<q, limit, threshold>>)
            /\ pool' = r.pool
            /\ table' = r.table
            /\ UNCHANGED <<dbUp, tasks, running, lastResp, pipeline>>

CallGetAll ==
    \E limit \in Limits, fault \in BOOLEAN :
        \E rows \in GetAllAnswers(table, limit) :
            LET r == get_all(table, pool, dbUp, fault, rows) IN
            /\ lastOp' = Summary(r, <<limit>>)
            /\ pool' = r.pool
            /\ table' = r.table
            /\ UNCHANGED <<dbUp, tasks, running, lastResp, pipeline>>

CallDeleteById ==
    \E id \in Ids, fault \in BOOLEAN :
        LET r == delete_by_id(table, pool, dbUp, fault, id) IN
        /\ lastOp' = Summary(r, <<id>>)
        /\ pool' = r.pool
        /\ table' = r.table
        /\ UNCHANGED <<dbUp, tasks, running, lastResp, pipeline>>

\* the environment: the database server goes away and comes back
DbGoesDown ==
    /\ dbUp
    /\ dbUp' = FALSE
    /\ UNCHANGED <<table, pool, lastOp, tasks, running, lastResp, pipeline>>

DbComesUp ==
    /\ ~dbUp
    /\ dbUp' = TRUE
    /\ UNCHANGED <<table, pool, lastOp, tasks, running, lastResp, pipeline>>

NextAdapter ==
    \/ CallCreateTable
    \/ CallBatchExistsCheck
    \/ CallBatchInsert
    \/ CallSearch
    \/ CallGetAll
    \/ CallDeleteById
    \/ DbGoesDown
    \/ DbComesUp

\* the store client alone, called one operation at a time
SpecAdapter == Init /\ [][NextAdapter]_vars

(************************ the embedding index ******************************)
\* the documents a request may carry: short texts that stay one chunk, a text
\* longer than chunk_size that is cut in two, and an empty text
ShortDocs == {"a", "b"}
Docs == ShortDocs \cup {"ab", ""}

\* RecursiveCharacterTextSplitter.split_text on one document
Chunks(doc) == CASE doc = ""   -> <<>>
                 [] doc = "ab" -> <<"a", "b">>
                 [] OTHER      -> <<doc>>

RECURSIVE split_documents(_)
split_documents(docs) ==
    IF docs = <<>> THEN <<>>
    ELSE Chunks(Head(docs)) \o split_documents(Tail(docs))

\* RagPipeline.ingest_documents, up to the call of add_items: every chunk is
\* an IndexItem whose meta holds at least "ingested_at"
IndexItems(docs) ==
    LET split_docs == split_documents(docs)
    IN  [i \in 1 .. Len(split_docs) |-> [text |-> split_docs[i], meta |-> "obj"]]

\* the text lists a request is tried with: n copies of one text, then up to
\* MaxTail further documents
PadLens == {0, batch_size - 1, batch_size}
Pad(f, n) == [i \in 1 .. n |-> f]
RequestTexts ==
    ({Pad("a", n) \o tail : n \in PadLens, tail \in SeqsUpTo(ShortDocs, MaxTail)}
        \ {<<>>})
    \cup {<<d>> : d \in Docs}

\* the vectors embed_connection_encode may give for a text
EmbedVecs == {0, 2}

\* a slice that forgets its upper end
batch_items_unbounded(items, off) == SubSeq(items, off + 1, Len(items))

\* add_items: items[i:i + batch_size]
batch_items(items, off) == SubSeq(items, off + 1, Min(off + batch_size, Len(items)))

\* _process_batch, step 1: (sha256 id, item) pairs
items_with_ids(items) ==
    [i \in 1 .. Len(items) |-> [id |-> sha256hex(items[i].text), item |-> items[i]]]

\* a filter that keeps every pair
items_to_process_unfiltered(pairs, existence_map) == pairs

\* _process_batch, step 3: the pairs whose id the existence map does not mark
items_to_process(pairs, existence_map) ==
    SelectSeq(pairs, LAMBDA pr : ~existence_map[pr.id])

\* _process_batch, step 5: one row per item to process
insert_data(todo, embeddings) ==
    [i \in 1 .. Len(todo) |->
        [id |-> todo[i].id, text |-> todo[i].item.text,
         embedding |-> embeddings[i], metadata |-> todo[i].item.meta]]

\* add_items: the loop moves to the next sub-batch, or is over
NextBatch(tk) ==
    IF tk.off + batch_size < Len(tk.items)
    THEN [tk EXCEPT !.off = @ + batch_size, !.pc = "check",
                    !.todo = <<>>, !.embeddings = <<>>]
    ELSE [tk EXCEPT !.pc = "respond", !.todo = <<>>, !.embeddings = <<>>]

\* an exception that is swallowed: the loop goes on
RaiseSwallowed(tk, exc) == NextBatch(tk)

\* an exception leaves _process_batch, add_items and ingest_documents
Raise(tk, exc) ==
    [tk EXCEPT !.pc = "respond", !.error = exc, !.todo = <<>>, !.embeddings = <<>>]

\* a store-client call made by a request handler
StoreCall(r) ==
    /\ pool' = r.pool
    /\ table' = r.table
    /\ UNCHANGED lastOp

\* the sizes the splitter works with. ingest_documents assigns the attribute
\* chunk_size of the splitter object; the splitter cuts by the _chunk_size and
\* _chunk_overlap its constructor stored, which the assignment leaves alone
text_splitter(assigned) ==
    [assigned |-> assigned, chunk_size |-> splitter_chunk_size,
     chunk_overlap |-> chunk_overlap]

\* RagPipeline.ingest_documents(documents, chunk_size), up to the first
\* sub-batch of add_items
ingest_documents(tk, documents, chunk_size) ==
    LET items == IndexItems(documents) IN
    [tk EXCEPT !.items = items, !.called = TRUE, !.chunk_size = chunk_size,
               !.pc = IF items = <<>> THEN "respond" ELSE "check"]

\* POST /ingest/texts: the handler builds the documents, ingest_documents
\* splits them and add_items starts on the first sub-batch
ingest_texts(t, texts, chunk_size) ==
    /\ running = 0
    /\ tasks[t].pc = "idle"
    /\ ~PipelineIsNone("ingest")
    /\ tasks' = [tasks EXCEPT ![t] =
           ingest_documents([IdleTask EXCEPT !.kind = "ingest"], texts, chunk_size)]
    /\ running' = t
    /\ UNCHANGED <<table, pool, dbUp, lastOp, lastResp, pipeline>>

\* a request to POST /ingest/texts with the default chunk_size
StartIngest(t) ==
    \E texts \in RequestTexts : ingest_texts(t, texts, default_chunk_size)

\* _process_batch, steps 1 to 3: ids, existence check, filter
Check(t) ==
    /\ running = t
    /\ tasks[t].pc = "check"
    /\ \E fault \in BOOLEAN :
          LET tk == tasks[t]
              pairs == items_with_ids(batch_items(tk.items, tk.off))
              all_ids == [i \in 1 .. Len(pairs) |-> pairs[i].id]
              r == batch_exists_check(table, pool, dbUp, fault, all_ids)
              ev == [ev |-> "check", off |-> tk.off, ids |-> all_ids,
                     failed |-> r.failed, raised |-> r.raised,
                     stored |-> {x.id : x \in table}]
              logged == [tk EXCEPT !.log = Append(@, ev)]
          IN
          /\ StoreCall(r)
          /\ tasks' = [tasks EXCEPT ![t] =
                IF r.raised # "none" THEN Raise(logged, r.raised)
                ELSE LET todo == items_to_process(pairs, r.value) IN
                     IF todo = <<>> THEN NextBatch(logged)
                     ELSE [logged EXCEPT !.todo = todo, !.pc = "embed"]]
    /\ UNCHANGED <<dbUp, running, lastResp, pipeline>>

\* _process_batch, step 4: one embed_connection_encode call for the sub-batch;
\* it never raises (a failed OpenAI call gives random vectors)
Embed(t) ==
    /\ running = t
    /\ tasks[t].pc = "embed"
    /\ LET tk == tasks[t]
           texts == [i \in 1 .. Len(tk.todo) |-> tk.todo[i].item.text]
       IN  \E vec \in [Range(texts) -> EmbedVecs] :
              tasks' = [tasks EXCEPT ![t] =
                  [tk EXCEPT !.embeddings = [i \in 1 .. Len(texts) |-> vec[texts[i]]],
                             !.log = Append(@, [ev |-> "embed", off |-> tk.off,
                                                texts |-> texts]),
                             !.pc = "insert"]]
    /\ UNCHANGED <<table, pool, dbUp, lastOp, running, lastResp, pipeline>>

\* _process_batch, steps 5 and 6: the rows, then batch_insert
Insert(t) ==
    /\ running = t
    /\ tasks[t].pc = "insert"
    /\ \E fault \in BOOLEAN :
          LET tk == tasks[t]
              data == insert_data(tk.todo, tk.embeddings)
              r == batch_insert(table, pool, dbUp, fault, data)
              ev == [ev |-> "insert", off |-> tk.off,
                     ids |-> [i \in 1 .. Len(data) |-> data[i].id],
                     texts |-> [i \in 1 .. Len(data) |-> data[i].text],
                     raised |-> r.raised]
              logged == [tk EXCEPT !.log = Append(@, ev)]
          IN
          /\ StoreCall(r)
          /\ tasks' = [tasks EXCEPT ![t] =
                IF r.raised # "none" THEN Raise(logged, r.raised)
                ELSE NextBatch(logged)]
    /\ UNCHANGED <<dbUp, running, lastResp, pipeline>>

\* ingest_texts, ingest_pdf, ingest_web: the IngestResponse, or
\* HTTPException(500) for any exception raised inside the try block
IngestResponse(tk) ==
    IF tk.error = "none"
    THEN [kind |-> tk.kind, code |-> 200, status |-> "success"]
    ELSE [kind |-> tk.kind, code |-> 500, status |-> "error"]

\* what is remembered of an ingestion call once it has been answered
IngestHistory(tk) ==
    [texts |-> {tk.items[i].text : i \in 1 .. Len(tk.items)},
     rejected |-> tk.rejected, called |-> tk.called,
     insert_raised |-> \E i \in 1 .. Len(tk.log) :
                          tk.log[i].ev = "insert" /\ tk.log[i].raised # "none"]

\* the handler returns; the event loop is free again
Respond(t) ==
    /\ running = t
    /\ tasks[t].pc = "respond"
    /\ lastResp' = IngestResponse(tasks[t]) @@ IngestHistory(tasks[t])
    /\ tasks' = [tasks EXCEPT ![t] = IdleTask]
    /\ running' = 0
    /\ UNCHANGED <<table, pool, dbUp, lastOp, pipeline>>

Next ==
    \/ \E t \in Tasks : StartIngest(t)
    \/ \E t \in Tasks : Check(t)
    \/ \E t \in Tasks : Embed(t)
    \/ \E t \in Tasks : Insert(t)
    \/ \E t \in Tasks : Respond(t)
    \/ DbGoesDown
    \/ DbComesUp

\* the service: request handlers on one event loop
Spec == Init /\ [][Next]_vars

(************************ retrieval and query ******************************)
\* the top_k values a query is tried with, from the 1..20 the request allows
TopKs == {1, 20}

\* the vectors get_embedding may give for a question
QueryVecs == 0 .. 3

\* RagPipeline.query: the number of passages asked of the retriever; top_k is
\* not handed on, the retriever keeps the k it was built with
RetrieveLimit(top_k) == retriever_k

\* BasePgVectorEmbeddingModel.search: store-client search with the default
\* threshold; any exception gives the empty list
embedding_search(tbl, p, up, fault, q, rows) ==
    LET r == search(tbl, p, up, fault, q, rows) IN
    [pool |-> r.pool,
     failed |-> r.failed,
     items |-> IF r.raised # "none" THEN <<>>
               ELSE [i \in 1 .. Len(r.value) |->
                        [text |-> r.value[i].text, meta |-> r.value[i].metadata]]]

\* PgVectorRetriever._aget_relevant_documents: one Document per item
aget_relevant_documents(found) ==
    [i \in 1 .. Len(found) |->
        [page_content |-> found[i].text, metadata |-> found[i].meta]]

\* POST /query: the handler runs RagPipeline.query up to the language-model
\* call, which runs in a thread while the event loop is free
StartQuery(t) ==
    /\ running = 0
    /\ tasks[t].pc = "idle"
    /\ ~PipelineIsNone("query")
    /\ \E top_k \in TopKs, q \in QueryVecs, fault \in BOOLEAN :
         \E rows \in SearchAnswers(table, q, RetrieveLimit(top_k), default_threshold) :
            LET f == embedding_search(table, pool, dbUp, fault, q, rows) IN
            /\ pool' = f.pool
            /\ tasks' = [tasks EXCEPT ![t] =
                  [IdleTask EXCEPT !.kind = "query", !.pc = "llm",
                                   !.top_k = top_k,
                                   !.error = IF f.failed THEN "read" ELSE "none",
                                   !.docs = aget_relevant_documents(f.items)]]
    /\ UNCHANGED <<table, dbUp, lastOp, running, lastResp, pipeline>>

\* RagPipeline.query: the response built from the model's answer, or the error
\* response when the call raised
QueryResponse(tk, llm_ok) ==
    IF llm_ok
    THEN [kind |-> "query", code |-> 200, answer |-> "llm", top_k |-> tk.top_k,
          read_failed |-> tk.error # "none", llm_failed |-> FALSE,
          sources |-> [i \in 1 .. Len(tk.docs) |->
                          [content |-> tk.docs[i].page_content,
                           metadata |-> tk.docs[i].metadata]]]
    ELSE [kind |-> "query", code |-> 200, answer |-> "error", top_k |-> tk.top_k,
          read_failed |-> tk.error # "none", llm_failed |-> TRUE,
          sources |-> <<>>]

\* the language-model call ends and the handler answers
LlmReturns(t) ==
    /\ running = 0
    /\ tasks[t].pc = "llm"
    /\ \E llm_ok \in BOOLEAN : lastResp' = QueryResponse(tasks[t], llm_ok)
    /\ tasks' = [tasks EXCEPT ![t] = IdleTask]
    /\ UNCHANGED <<table, pool, dbUp, lastOp, running, pipeline>>

NextQuery ==
    \/ \E t \in Tasks : StartQuery(t)
    \/ \E t \in Tasks : LlmReturns(t)
    \/ DbGoesDown
    \/ DbComesUp

\* the service answering queries
SpecQuery == Init /\ [][NextQuery]_vars

(******************* startup and the other routes **************************)
\* lastOp while no store client exists
NoOp == [op |-> "none", args |-> <<>>, raised |-> "none", value |-> None,
         failed |-> FALSE, acquired |-> 0, released |-> 0, peak |-> 0,
         caught |-> "none"]

\* the tables the process is started on: an empty one, and one that holds the
\* text the requests carry
StartupTables == {{}, {Row("a")}}

\* the process before its startup event: no client, no pool, no pipeline
InitStartup ==
    /\ table \in StartupTables
    /\ pool = [idle |-> 0, used |-> 0]
    /\ dbUp \in BOOLEAN
    /\ lastOp = NoOp
    /\ tasks = [t \in Tasks |-> IdleTask]
    /\ running = 0
    /\ lastResp = NoResp
    /\ pipeline = NotInjected

\* main.init_pipeline: the embedding model opens the pool and creates the
\* table, RagPipeline builds the language-model client, and only then are the
\* four names bound; any exception is re-raised with nothing bound, and the
\* dropped embedding model closes its pool
init_pipeline ==
    /\ pipeline.startup = "pending"
    /\ \E fault \in BOOLEAN, llm_ok \in BOOLEAN :
          LET r == create_table(table, [idle |-> min_conn, used |-> 0], dbUp, fault)
              ok == dbUp /\ r.raised = "none" /\ llm_ok
          IN
          /\ pool' = IF ok THEN r.pool ELSE [idle |-> 0, used |-> 0]
          /\ lastOp' = IF dbUp THEN Summary(r, <<>>) ELSE lastOp
          /\ pipeline' = IF ok THEN Injected
                         ELSE [pipeline EXCEPT !.startup = "failed"]
    /\ UNCHANGED <<table, dbUp, tasks, running, lastResp>>

\* any handler that finds its module's pipeline None: HTTPException(503),
\* raised before the handler's try block
Unavailable ==
    /\ running = 0
    /\ \E e \in Endpoints :
          /\ PipelineIsNone(e)
          /\ lastResp' = [kind |-> e, code |-> 503]
    /\ UNCHANGED <<table, pool, dbUp, lastOp, tasks, running, pipeline>>

\* GET /health
health_check ==
    /\ running = 0
    /\ ~PipelineIsNone("health")
    /\ lastResp' = [kind |-> "health", code |-> 200]
    /\ UNCHANGED <<table, pool, dbUp, lastOp, tasks, running, pipeline>>

\* the chunk_size values a request to POST /ingest/texts is tried with
ChunkSizes == {min_chunk_size - 1, min_chunk_size, chunk_overlap,
               chunk_overlap + 1, max_chunk_size, max_chunk_size + 1}

\* DocumentIngestRequest.chunk_size: Field(default=1000, ge=100, le=4000)
ValidChunkSize(c) == min_chunk_size <= c /\ c <= max_chunk_size

\* a request the model validation refuses never reaches its handler
RejectInvalid ==
    /\ running = 0
    /\ \E c \in ChunkSizes :
          /\ ~ValidChunkSize(c)
          /\ lastResp' = [kind |-> "validation", code |-> 422, chunk_size |-> c]
    /\ UNCHANGED <<table, pool, dbUp, lastOp, tasks, running, pipeline>>

\* a request to POST /ingest/texts with a chunk_size of its own
StartTexts(t) ==
    \E c \in ChunkSizes :
        /\ ValidChunkSize(c)
        /\ ingest_texts(t, <<"a">>, c)

\* the uploads POST /ingest/pdf is tried with: a content type, and one page
\* of text or a file the PDF loader cannot read
ContentTypes == {"application/pdf", "text/plain"}
Uploads == [content_type : ContentTypes, page : {"a", "corrupt"}]

\* ingest_pdf: the loop over the files, inside the try block
RECURSIVE ingest_pdf_loop(_, _)
ingest_pdf_loop(files, documents) ==
    IF files = <<>>
    THEN [exc |-> "none", status_code |-> 0, documents |-> documents]
    ELSE LET file == Head(files) IN
         IF file.content_type # "application/pdf"
         THEN [exc |-> "HTTPException", status_code |-> 400,
               documents |-> documents]
         ELSE IF file.page = "corrupt"
         THEN [exc |-> "PdfReadError", status_code |-> 0, documents |-> documents]
         ELSE ingest_pdf_loop(Tail(files), Append(documents, file.page))

\* POST /ingest/pdf, up to the first sub-batch of add_items
StartPdf(t) ==
    /\ running = 0
    /\ tasks[t].pc = "idle"
    /\ ~PipelineIsNone("pdf")
    /\ \E files \in SeqsUpTo(Uploads, MaxFiles) \ {<<>>} :
          LET l == ingest_pdf_loop(files, <<>>)
              tk == [IdleTask EXCEPT !.kind = "pdf"]
          IN
          tasks' = [tasks EXCEPT ![t] =
              IF l.exc # "none"
              THEN [tk EXCEPT !.pc = "respond", !.error = l.exc,
                              !.rejected = l.status_code]
              ELSE ingest_documents(tk, l.documents, documents_chunk_size)]
    /\ running' = t
    /\ UNCHANGED <<table, pool, dbUp, lastOp, lastResp, pipeline>>

\* what leaves the try block of scrape_url: the exception of a fetch that
\* timed out, which stands for any other that requests.get, raise_for_status
\* or the parsing may raise
FetchErrors == {"Timeout"}
PageTexts == {"a"}

\* WebScraper.scrape_url: the Document, or the exception re-raised
scrape_url(url, outcome) ==
    IF outcome \in FetchErrors
    THEN [raised |-> outcome, page_content |-> None, source |-> url]
    ELSE [raised |-> "none", page_content |-> outcome, source |-> url]

\* a gathering that gives up on the first failure
scrape_multiple_aborting(results) ==
    IF \E i \in 1 .. Len(results) : results[i].raised # "none" THEN <<>>
    ELSE [i \in 1 .. Len(results) |->
             [page_content |-> results[i].page_content,
              source |-> results[i].source]]

\* WebScraper.scrape_multiple, after gather(return_exceptions=True): the
\* results that are not exceptions, in the order of the URLs
scrape_multiple(results) ==
    LET ok == SelectSeq(results, LAMBDA r : r.raised = "none")
    IN  [i \in 1 .. Len(ok) |->
            [page_content |-> ok[i].page_content, source |-> ok[i].source]]

\* the numbers of URLs a request is tried with, of the 1 to 10 it may carry
UrlCounts == 1 .. MaxUrls

\* POST /ingest/web: the handler calls scrape_multiple, which hands one
\* scrape_url task per URL to the event loop and waits in gather
StartWeb(t) ==
    /\ running = 0
    /\ tasks[t].pc = "idle"
    /\ ~PipelineIsNone("web")
    /\ \E n \in UrlCounts :
          tasks' = [tasks EXCEPT ![t] =
                      [IdleTask EXCEPT !.kind = "web", !.pc = "gather", !.urls = n]]
    /\ UNCHANGED <<table, pool, dbUp, lastOp, running, lastResp, pipeline>>

\* the event loop runs the next scrape_url task of the request. gather put
\* the tasks of the request into the loop's queue one after another, and each
\* runs to its end in one step (requests.get blocks, scrape_url awaits
\* nothing): the loop is held from the first fetch to the last
Fetch(t) ==
    /\ tasks[t].pc = "gather"
    /\ Len(tasks[t].fetched) < tasks[t].urls
    /\ running = IF tasks[t].fetched = <<>> THEN 0 ELSE t
    /\ \E outcome \in PageTexts \cup FetchErrors :
          tasks' = [tasks EXCEPT ![t].fetched =
                      Append(@, scrape_url(Len(@) + 1, outcome))]
    /\ running' = IF Len(tasks[t].fetched) + 1 = tasks[t].urls THEN 0 ELSE t
    /\ UNCHANGED <<table, pool, dbUp, lastOp, lastResp, pipeline>>

\* gather is over: scrape_multiple returns, the handler refuses an empty
\* list with HTTPException(400) inside its try block, or goes on to
\* ingest_documents
Gathered(t) ==
    /\ running = 0
    /\ tasks[t].pc = "gather"
    /\ Len(tasks[t].fetched) = tasks[t].urls
    /\ LET documents == scrape_multiple(tasks[t].fetched)
           tk == [tasks[t] EXCEPT !.docs = documents]
       IN
       tasks' = [tasks EXCEPT ![t] =
           IF documents = <<>>
           THEN [tk EXCEPT !.pc = "respond", !.error = "HTTPException",
                           !.rejected = 400]
           ELSE ingest_documents(
                    tk, [i \in 1 .. Len(documents) |-> documents[i].page_content],
                    documents_chunk_size)]
    /\ running' = t
    /\ UNCHANGED <<table, pool, dbUp, lastOp, lastResp, pipeline>>

NextRoutes ==
    \/ init_pipeline
    \/ Unavailable
    \/ health_check
    \/ RejectInvalid
    \/ \E t \in Tasks : StartTexts(t)
    \/ \E t \in Tasks : Check(t)
    \/ \E t \in Tasks : Embed(t)
    \/ \E t \in Tasks : Insert(t)
    \/ \E t \in Tasks : Respond(t)

\* the service from the start of the process: startup, the guard of every
\* handler, request validation, the health route and the text route
SpecRoutes == InitStartup /\ [][NextRoutes]_vars

\* the service once started, on one of the startup tables
InitLoaders ==
    /\ Init
    /\ table \in StartupTables

NextLoaders ==
    \/ \E t \in Tasks : StartPdf(t)
    \/ \E t \in Tasks : StartWeb(t)
    \/ \E t \in Tasks : Fetch(t)
    \/ \E t \in Tasks : Gathered(t)
    \/ \E t \in Tasks : Check(t)
    \/ \E t \in Tasks : Embed(t)
    \/ \E t \in Tasks : Insert(t)
    \/ \E t \in Tasks : Respond(t)

\* the PDF and web routes
SpecLoaders == InitLoaders /\ [][NextLoaders]_vars

(***************************** claims **************************************)
IdsOfTexts(texts) == [i \in 1 .. Len(texts) |-> sha256hex(texts[i])]
TextsOf(items) == [i \in 1 .. Len(items) |-> items[i].text]
Distinct(s) == \A i, j \in 1 .. Len(s) : i # j => s[i] # s[j]
RowsWithText(x) == {r \in table : r.id = sha256hex(x)}
EventsOf(log, kind) == {i \in 1 .. Len(log) : log[i].ev = kind}

\* no storage fault met the call: every existence check went through and no
\* insert failed for want of a connection or of the server
NoStorageFault(log) ==
    \A i \in 1 .. Len(log) :
        /\ log[i].ev = "check" => ~log[i].failed
        /\ log[i].ev = "insert" =>
               log[i].raised \notin {"DatabaseError", "UnboundLocalError"}

\* C1 (as claimed): when an add_items call that met no storage fault has
\* ended, the collection holds exactly one record for each text it was given.
C1_OneRecordPerIngestedText ==
    \A t \in Tasks :
        (tasks[t].pc = "respond" /\ NoStorageFault(tasks[t].log)) =>
            \A i \in 1 .. Len(tasks[t].items) :
                Cardinality(RowsWithText(tasks[t].items[i].text)) = 1

\* C2: in a call over pairwise distinct texts, after an existence check that
\* succeeded, the embedding function is called with exactly the texts of the
\* sub-batch that are not stored, in order, and is not called when all are
\* stored.
C2_DedupPrecedesEmbedding ==
    \A t \in Tasks :
        LET tk == tasks[t]
            log == tk.log
        IN
        (tk.kind = "ingest" /\ Distinct(TextsOf(tk.items))) =>
            \A i \in EventsOf(log, "check") :
                (~log[i].failed /\ log[i].raised = "none") =>
                    LET new == SelectSeq(log[i].ids,
                                         LAMBDA id : id \notin log[i].stored)
                        calls == {j \in EventsOf(log, "embed") :
                                      log[j].off = log[i].off}
                    IN
                    /\ Cardinality(calls) <= 1
                    /\ new = <<>> => calls = {}
                    /\ \A j \in calls : IdsOfTexts(log[j].texts) = new
                    /\ (new # <<>> /\ ~(tk.pc = "embed" /\ tk.off = log[i].off))
                           => calls # {}

\* C2 witness: of two distinct texts one was stored, the check succeeded and
\* the embedding function has been called.
C2_Witness ==
    \E t \in Tasks :
        LET log == tasks[t].log IN
        /\ Distinct(TextsOf(tasks[t].items))
        /\ \E i \in EventsOf(log, "check"), j \in EventsOf(log, "embed") :
              /\ ~log[i].failed
              /\ log[i].raised = "none"
              /\ log[j].off = log[i].off
              /\ \E k \in 1 .. Len(log[i].ids) : log[i].ids[k] \in log[i].stored
              /\ \E k \in 1 .. Len(log[i].ids) : log[i].ids[k] \notin log[i].stored

RECURSIVE Flatten(_)
Flatten(ss) == IF ss = <<>> THEN <<>> ELSE Head(ss) \o Flatten(Tail(ss))

EventTexts(log, kind) ==
    Flatten([i \in 1 .. Len(log) |->
                IF log[i].ev = kind THEN log[i].texts ELSE <<>>])

\* C3 (as claimed): within one add_items call no text is passed to the
\* embedding function more than once, and no text is in more than one insert
\* row.
C3_NoReEmbeddingOfRepeats ==
    \A t \in Tasks :
        /\ Distinct(EventTexts(tasks[t].log, "embed"))
        /\ Distinct(EventTexts(tasks[t].log, "insert"))

EventRank(kind) == CASE kind = "check" -> 1 [] kind = "embed" -> 2 [] OTHER -> 3

\* C4: the events of a call come sub-batch by sub-batch in submission order;
\* a sub-batch is the next at most batch_size items; within a sub-batch there
\* is at most one check, then at most one embedding call, then at most one
\* insert; an embedding call follows its sub-batch's check and an insert
\* carries the texts that were embedded.
C4_ProtocolOrder ==
    \A t \in Tasks :
        LET tk == tasks[t]
            log == tk.log
            n == Len(log)
        IN
        /\ \A i, j \in 1 .. n : i < j => log[i].off <= log[j].off
        /\ \A i, j \in 1 .. n :
              (i < j /\ log[i].off = log[j].off) =>
                  EventRank(log[i].ev) < EventRank(log[j].ev)
        /\ \A i \in 1 .. n :
              /\ log[i].off % batch_size = 0
              /\ log[i].off < Len(tk.items)
              /\ log[i].off > 0 =>
                    \E j \in 1 .. i - 1 : log[j].off = log[i].off - batch_size
        /\ n > 0 => log[1].off = 0
        /\ \A i \in EventsOf(log, "check") :
              /\ Len(log[i].ids) <= batch_size
              /\ Len(log[i].ids) = Min(batch_size, Len(tk.items) - log[i].off)
              /\ \A k \in 1 .. Len(log[i].ids) :
                    log[i].ids[k] = sha256hex(tk.items[log[i].off + k].text)
        /\ \A i \in EventsOf(log, "embed") :
              \E j \in 1 .. i - 1 :
                  log[j].ev = "check" /\ log[j].off = log[i].off
        /\ \A i \in EventsOf(log, "insert") :
              \E j \in 1 .. i - 1 :
                  /\ log[j].ev = "embed"
                  /\ log[j].off = log[i].off
                  /\ log[j].texts = log[i].texts

\* C4 witness: a call of more than batch_size items has checked its first
\* sub-batch and has checked, embedded and inserted in its second.
C4_Witness ==
    \E t \in Tasks :
        LET log == tasks[t].log IN
        /\ Len(tasks[t].items) > batch_size
        /\ \E i \in EventsOf(log, "check") : log[i].off = 0
        /\ \E i \in EventsOf(log, "check"), j \in EventsOf(log, "embed"),
              k \in EventsOf(log, "insert") :
              /\ log[i].off = batch_size
              /\ log[j].off = batch_size
              /\ log[k].off = batch_size

\* C5 (as claimed): when two ingestion calls on the same text have both ended
\* (the one answered last and the one about to be answered), the collection
\* holds exactly one row for that text.
C5_OneRowAfterTwoIngestions ==
    \A t \in Tasks :
        (tasks[t].pc = "respond" /\ lastResp.kind = "ingest") =>
            \A x \in lastResp.texts \cap Range(TextsOf(tasks[t].items)) :
                Cardinality(RowsWithText(x)) = 1

\* the handlers of two ingestion calls are never both between their
\* existence check and their insert: the loop runs one handler to its end
NeverBothPastCheck ==
    \A t, u \in Tasks :
        (t # u /\ tasks[t].kind = "ingest" /\ tasks[u].kind = "ingest") =>
            ~(tasks[t].pc \in {"embed", "insert"} /\ tasks[u].pc \in {"embed", "insert"})

\* C6: a call in which batch_insert raised ends with an exception, and its
\* request is answered 500 and never with status "success".
C6_WriteFailureIsNotSuccess ==
    /\ \A t \in Tasks :
          (tasks[t].pc = "respond" /\
           \E i \in EventsOf(tasks[t].log, "insert") : tasks[t].log[i].raised # "none")
              => tasks[t].error # "none"
    /\ (lastResp.kind = "ingest" /\ lastResp.insert_raised) =>
          (lastResp.code = 500 /\ lastResp.status # "success")

\* C6 witness: an ingestion request whose batch_insert raised was answered 500.
C6_Witness ==
    /\ lastResp.kind = "ingest"
    /\ lastResp.insert_raised
    /\ lastResp.code = 500

\* C7 (as claimed): batch_exists_check never raises; after a storage failure
\* its map marks every requested id as not existing; with no ids it gives the
\* empty map and acquires nothing.
C7_CheckExistingFailsOpen ==
    lastOp.op = "batch_exists_check" =>
        /\ lastOp.raised = "none"
        /\ lastOp.failed => \A i \in 1 .. Len(lastOp.args) :
                                lastOp.value[lastOp.args[i]] = FALSE
        /\ lastOp.args = <<>> => (lastOp.value = <<>> /\ lastOp.acquired = 0)

\* C8 (as claimed): every store-client operation acquires at most one
\* connection and has returned it once when it ends, no connection stays
\* checked out, and a failed acquisition does not end in an error raised by
\* the release code.
C8_ScopedConnectionUse ==
    /\ pool.used = 0
    /\ lastOp.acquired <= 1
    /\ lastOp.released = lastOp.acquired
    /\ (lastOp.failed /\ lastOp.acquired = 0) => lastOp.raised # "UnboundLocalError"

\* the exceptions of a storage fault: no connection to be had, or the server
\* gone or failing while the statement runs
StorageFaults == {"PoolError", "OperationalError", "DatabaseError"}

\* C11 (as claimed): a query whose retrieval failed, or whose language-model
\* call failed, is answered with the error string and no sources.
C11_QueryFailurePolicy ==
    (lastResp.kind = "query" /\ (lastResp.read_failed \/ lastResp.llm_failed)) =>
        (lastResp.answer = "error" /\ lastResp.sources = <<>>)

\* C12 (as claimed): the store client's search never raises, and a search in
\* which anything failed gives the empty list.
C12_ReadFailuresDegradeToEmpty ==
    lastOp.op = "search" =>
        /\ lastOp.raised = "none"
        /\ lastOp.failed => lastOp.value = <<>>

\* C13 (as claimed): a search that met no storage fault gives at most limit
\* rows, most similar first, none below the threshold, and they are the limit
\* most similar of the stored rows that are not below the threshold.
C13_SimilarityRanking ==
    (lastOp.op = "search" /\ lastOp.caught \notin StorageFaults) =>
        LET q == lastOp.args[1]
            k == lastOp.args[2]
            t == lastOp.args[3]
            pass == {r \in table : similarity(r.embedding, q) >= t}
        IN
        /\ lastOp.raised = "none"
        /\ LET v == lastOp.value
               n == Len(v)
           IN
           /\ n <= k
           /\ n = Min(k, Cardinality(pass))
           /\ \A i, j \in 1 .. n : i < j => v[i].similarity >= v[j].similarity
           /\ \A i, j \in 1 .. n : i # j => v[i].id # v[j].id
           /\ \A i \in 1 .. n :
                 /\ v[i].similarity >= t
                 /\ \E r \in pass :
                       r.id = v[i].id /\ similarity(r.embedding, q) = v[i].similarity
           /\ \A r \in pass :
                 (\A i \in 1 .. n : v[i].id # r.id) =>
                     \A i \in 1 .. n : v[i].similarity >= similarity(r.embedding, q)

\* C14: while init_pipeline has not succeeded (it has not run, or it failed)
\* no name is bound to a pipeline, no handler has begun any work, no
\* connection is open, and every request answered got 503 (or 422 from the
\* request validation, which runs before the handler); once it has succeeded
\* main and the three route modules refer to the same pipeline object.
C14_UninitializedGuard ==
    /\ pipeline.startup # "done" =>
          /\ pipeline.main = None
          /\ pipeline.ingest = None
          /\ pipeline.query = None
          /\ pipeline.health = None
          /\ \A t \in Tasks : tasks[t] = IdleTask
          /\ running = 0
          /\ pool = [idle |-> 0, used |-> 0]
          /\ lastResp.kind = "none" \/ lastResp.code \in {503, 422}
    /\ pipeline.startup = "done" =>
          /\ pipeline.ingest # None
          /\ pipeline.ingest = pipeline.main
          /\ pipeline.query = pipeline.main
          /\ pipeline.health = pipeline.main

\* C14 witness: init_pipeline has failed and a request to POST /ingest/web
\* was answered 503.
C14_Witness ==
    /\ pipeline.startup = "failed"
    /\ lastResp.kind = "web"
    /\ lastResp.code = 503

\* C15 (as claimed): a request to POST /ingest/pdf or /ingest/web whose
\* handler raised HTTPException(400) is answered 400, and ingest_documents was
\* not called for it.
C15_ValidationErrorsAre400 ==
    (lastResp.kind \in {"pdf", "web"} /\ lastResp.rejected = 400) =>
        (lastResp.code = 400 /\ ~lastResp.called)

\* C18: once the gathering of a web request is over, scrape_multiple has
\* raised nothing and has returned exactly one document per URL whose fetch
\* succeeded, with that fetch's content, in the order of the URLs.
C18_ScrapeIsolation ==
    \A t \in Tasks :
        (tasks[t].kind = "web" /\ tasks[t].pc # "gather") =>
            LET f == tasks[t].fetched
                d == tasks[t].docs
                ok == {i \in 1 .. Len(f) : f[i].raised = "none"}
            IN
            /\ Len(f) = tasks[t].urls
            /\ tasks[t].error \notin FetchErrors
            /\ Len(d) = Cardinality(ok)
            /\ \A k \in 1 .. Len(d) :
                  /\ d[k].source \in ok
                  /\ d[k].page_content = f[d[k].source].page_content
            /\ \A j, k \in 1 .. Len(d) : j < k => d[j].source < d[k].source

\* C18 witness: of the three URLs of a request one timed out, and
\* scrape_multiple returned two documents.
C18_Witness ==
    \E t \in Tasks :
        /\ tasks[t].kind = "web"
        /\ tasks[t].pc # "gather"
        /\ tasks[t].urls = 3
        /\ Cardinality({i \in 1 .. Len(tasks[t].fetched) :
                           tasks[t].fetched[i].raised = "Timeout"}) = 1
        /\ Len(tasks[t].docs) = 2

\* C19 (as claimed): whenever ingest_documents is called, the chunk_size it
\* was called with and assigned to the splitter is greater than the
\* splitter's chunk_overlap, and so is the chunk_size the splitter cuts by.
C19_ChunkSizeExceedsOverlap ==
    \A t \in Tasks :
        tasks[t].called =>
            LET sp == text_splitter(tasks[t].chunk_size) IN
            /\ sp.chunk_size > sp.chunk_overlap
            /\ sp.assigned > sp.chunk_overlap

\* C16: no step changes a stored row: a row stays as it is, with its text,
\* embedding, metadata and time of writing, unless that step is a delete_by_id
\* of its id, and no second row takes its id.
C16_NoUpdateInPlace ==
    [][\A r \in table :
          /\ \A x \in table' : x.id = r.id => x = r
          /\ r \notin table' =>
                (lastOp'.op = "delete_by_id" /\ lastOp'.args = <<r.id>>)]_vars

\* C16 witness: batch_insert has been called with a row whose id is stored
\* with another embedding and other metadata, and the stored row is as it was
\* first written.
C16_Witness ==
    /\ lastOp.op = "batch_insert"
    /\ \E i \in 1 .. Len(lastOp.args) : \E r \in table :
          /\ r.id = lastOp.args[i].id
          /\ r.embedding # lastOp.args[i].embedding
          /\ r.metadata # lastOp.args[i].metadata
          /\ r = Row(r.text)

\* C17 (as claimed): a batch_insert (a step of the client, not of the
\* database server) that met no storage fault raises nothing
\* and returns the number of ids of the batch that were not stored before the
\* call and are stored after it; 0, with the table unchanged, when every id
\* was stored.
C17_InsertCountsRowsWritten ==
    [][(dbUp' = dbUp /\ lastOp'.op = "batch_insert"
            /\ lastOp'.caught \notin StorageFaults) =>
          LET ids == {lastOp'.args[i].id : i \in 1 .. Len(lastOp'.args)}
              before == {r.id : r \in table}
              after == {r.id : r \in table'}
          IN
          /\ lastOp'.raised = "none"
          /\ lastOp'.value = Cardinality((ids \ before) \cap after)
          /\ ids \subseteq before => (lastOp'.value = 0 /\ table' = table)]_vars

\* C20 (as claimed): a search of the index that met no failure gives
\* min(k, number of stored records) items, whatever their similarity to the
\* query.
C20_DefaultFloorIsNoFloor ==
    \A t \in Tasks :
        (tasks[t].kind = "query" /\ tasks[t].pc = "llm" /\ tasks[t].error = "none") =>
            Len(tasks[t].docs) = Min(RetrieveLimit(tasks[t].top_k), Cardinality(table))

\* the program never has more than one connection checked out: an operation
\* holds one while it runs and none is held between operations
AtMostOneCheckedOut == lastOp.peak <= 1 /\ pool.used = 0

\* C10 (as claimed): the answer to a query holds at most top_k sources.
C10_QueryHonoursTopK ==
    lastResp.kind = "query" => Len(lastResp.sources) <= lastResp.top_k

\* a request whose handler is between the start and the end of its waiting
\* calls: the existence check, the embedding call and the insert of a
\* sub-batch, or the fetches of scrape_multiple once the first has begun
InWaitingCall(t) ==
    \/ tasks[t].pc \in {"check", "embed", "insert"}
    \/ /\ tasks[t].pc = "gather"
       /\ 0 < Len(tasks[t].fetched)
       /\ Len(tasks[t].fetched) < tasks[t].urls

\* the steps a request of the PDF or web route may take
StepOf(u) ==
    \/ StartPdf(u)
    \/ StartWeb(u)
    \/ Fetch(u)
    \/ Gathered(u)
    \/ Check(u)
    \/ Embed(u)
    \/ Insert(u)
    \/ Respond(u)

\* C21 (as claimed): while one request is inside batch_exists_check,
\* embed_connection_encode, batch_insert or the fetches of its scrape, every
\* other request can take a step.
C21_CooperativeSuspension ==
    \A t, u \in Tasks :
        (t # u /\ InWaitingCall(t)) => ENABLED StepOf(u)

\* the ids of the rows the inserts of a call wrote: those of the inserts that
\* did not raise
WrittenBy(log) ==
    UNION {Range(log[i].ids) : i \in {j \in EventsOf(log, "insert") :
                                         log[j].raised = "none"}}

\* a failed add_items call leaves the rows that were stored when it began and
\* the rows of the sub-batches it inserted before the failure, and no other
PartialProgress ==
    \A t \in Tasks :
        LET tk == tasks[t] IN
        (tk.kind = "ingest" /\ tk.pc = "respond" /\ tk.error # "none") =>
            {r.id : r \in table} = tk.log[1].stored \cup WrittenBy(tk.log)

\* the call about to be answered repeats the call answered last, which had
\* failed, and has met no storage fault itself
RetryAfterFault(t) ==
    /\ tasks[t].kind = "ingest"
    /\ tasks[t].pc = "respond"
    /\ NoStorageFault(tasks[t].log)
    /\ lastResp.kind = "ingest"
    /\ lastResp.code = 500
    /\ lastResp.texts = Range(TextsOf(tasks[t].items))

\* C22 (as claimed): a failed add_items call keeps the rows of the sub-batches
\* before the failing one and stores none of the failing one or later; the
\* same call repeated once the fault is cleared ends with exactly one row for
\* each distinct input text, and embeds no text that was stored when it began.
C22_PartialProgressAndRetry ==
    /\ PartialProgress
    /\ \A t \in Tasks :
          RetryAfterFault(t) =>
              /\ \A x \in Range(TextsOf(tasks[t].items)) :
                    Cardinality(RowsWithText(x)) = 1
              /\ \A x \in Range(EventTexts(tasks[t].log, "embed")) :
                    sha256hex(x) \notin tasks[t].log[1].stored

====
